---- MODULE Spec2Model ----
(***************************************************************************)
(* Pragotron minute-clock controller: PulseManager (alternating coil       *)
(* pulses with an anti-duplicate guard), StateManager (persisted HH:MM),   *)
(* SystemManager (boot reconciliation, minute tick, catch-up, periodic NTP *)
(* re-sync, manual set) and the web handler that injects manual sets.      *)
(*                                                                         *)
(* Time is kept in real milliseconds (millis()) and real minutes-of-day    *)
(* (0..1439).  A DateTime is a record [hour, minute]; the line of          *)
(* state.txt is a record [fmt, h, m].  Every handler is one atomic action  *)
(* (single-threaded cooperative loop); a pulse blocks for                  *)
(* durationMs + pauseMs, which the action adds to millis.  SD writes are   *)
(* taken to succeed.  millis never reaches 2^32 inside the explored        *)
(* window, so unsigned subtraction is plain subtraction here.              *)
(***************************************************************************)
EXTENDS Integers, Sequences, FiniteSets, TLC

VARIABLES pc, cfg, rtcOk, pulse, sys, stateFile, millis, wall, obs, call

vars == <<pc, cfg, rtcOk, pulse, sys, stateFile, millis, wall, obs, call>>

(***************************************************************************)
(* Exploration bounds                                                      *)
(***************************************************************************)
\* loop iterations are explored while millis - obs.windowStart stays below this
MaxMs == 3000
\* number of environment events in one run: the minute rolling over, an idle
\* minute, a web set-state request, a power loss
MaxEvents == 2

(***************************************************************************)
(* Program constants                                                       *)
(***************************************************************************)
MinutesPerDay == 1440
PauseAfterMs == 150
SafetyMs == 50
DefaultMinGapMs == 600
DefaultDurationMs == 200
DefaultPauseMs == 200
DstLowSec == 55 * 60
DstHighSec == 65 * 60
SyncSettleMs == 200

(***************************************************************************)
(* Inputs                                                                  *)
(***************************************************************************)
Configs ==
  { [mode |-> "auto",   impulseDelayMs |-> 250, maxCatchupMinutes |-> 3,
     resyncRtcIfDiffSeconds |-> 60, ntpResyncEveryMinutes |-> 1, webEditEnabled |-> TRUE],
    [mode |-> "manual", impulseDelayMs |-> 500, maxCatchupMinutes |-> 3,
     resyncRtcIfDiffSeconds |-> 60, ntpResyncEveryMinutes |-> 1, webEditEnabled |-> TRUE],
    [mode |-> "auto",   impulseDelayMs |-> 500, maxCatchupMinutes |-> 2,
     resyncRtcIfDiffSeconds |-> 60, ntpResyncEveryMinutes |-> 0, webEditEnabled |-> FALSE] }

\* contents of state.txt at power-on
NoFile == [fmt |-> "missing", h |-> 0, m |-> 0]
InitFiles == { NoFile, [fmt |-> "hhmm", h |-> 0, m |-> 0], [fmt |-> "hhmm", h |-> 23, m |-> 58] }
\* wall-clock minute-of-day at power-on
InitWalls == { 1, 3, 4 }
\* time setup() has taken when SystemManager::begin() returns
BootTimes == { 400 }
\* time that passes between two loop() iterations (delay(20) plus request handling)
ShortDelays == { 600 }
LongGapMs == 60000
\* what an NTP sync does to the system clock: |sysAfter - sysBefore| in seconds,
\* whether tm_isdst differs, and whether the clock went back
SyncOutcomes ==
  { [delta |-> 0,    flip |-> FALSE, back |-> FALSE],
    [delta |-> 30,   flip |-> FALSE, back |-> FALSE],
    [delta |-> 60,   flip |-> FALSE, back |-> FALSE],
    [delta |-> 120,  flip |-> TRUE,  back |-> FALSE],
    [delta |-> 120,  flip |-> FALSE, back |-> TRUE],
    [delta |-> 3600, flip |-> TRUE,  back |-> FALSE],
    [delta |-> 3600, flip |-> FALSE, back |-> FALSE],
    [delta |-> 3960, flip |-> TRUE,  back |-> FALSE] }
BootSyncOutcomes ==
  { [delta |-> 0,    flip |-> FALSE, back |-> FALSE],
    [delta |-> 3600, flip |-> TRUE,  back |-> FALSE],
    [delta |-> 3600, flip |-> FALSE, back |-> FALSE] }
\* without an RTC begin() returns before NTP is configured: every sync attempt
\* times out, the system clock is never set, and only the seconds the attempt
\* took lie between the two readings
OfflineSyncOutcomes == { [delta |-> 5, flip |-> FALSE, back |-> FALSE] }
\* minute-of-day of a system clock that was never set (the epoch, at power-on)
UnsetClock == 0
\* manual targets, as minutes the entered time lies behind the wall clock
ManualBehind == { 0, 3, 4 }
\* (-1 is what h and m hold when sscanf does not fill them)
BadRequests == { <<24, 0>>, <<0, 60>>, <<23, 60>>, <<-1, 0>>, <<0, -1>>, <<-1, -1>> }

(***************************************************************************)
(* Utilities                                                               *)
(***************************************************************************)
Max2(a, b) == IF a >= b THEN a ELSE b

\* C remainder (truncation toward zero)
CRem(a, n) == IF a >= 0 THEN a % n ELSE -((-a) % n)

\* C quotient (truncation toward zero)
CDiv(a, n) == IF a >= 0 THEN a \div n ELSE -((-a) \div n)

DateTime(h, m) == [hour |-> h, minute |-> m]

minutesOfDay(dt) == dt.hour * 60 + dt.minute

\* diffForwardMinutes without the + 1440 that lifts a negative remainder
diffForwardMinutes_NoLift(fromMinutes, toMinutes) ==
  CRem(toMinutes - fromMinutes, MinutesPerDay)

diffForwardMinutes(fromMinutes, toMinutes) ==
  CRem(CRem(toMinutes - fromMinutes, MinutesPerDay) + MinutesPerDay, MinutesPerDay)

\* the local time of the source the mode selects, as a DateTime
SystemLocalNow(w) == DateTime(w.wall \div 60, w.wall % 60)

Log(w, tag) == [w EXCEPT !.obs.logs = @ \cup {tag}]

(***************************************************************************)
(* StateManager                                                            *)
(***************************************************************************)
\* "%02d:%02d"
formatDateTime(dt) == [fmt |-> "hhmm", h |-> dt.hour, m |-> dt.minute]

saveClockTime(w, dt) == [w EXCEPT !.file = formatDateTime(dt)]

ValidHM(h, m) == h >= 0 /\ h < 24 /\ m >= 0 /\ m < 60

\* parseLine returning 00:00 for an invalid line without rewriting the file
parseLine_NoWriteBack(w, line) ==
  IF line.fmt = "dated" /\ ValidHM(line.h, line.m)
  THEN [dt |-> DateTime(line.h, line.m), w |-> w]
  ELSE IF line.fmt = "hhmm" /\ ValidHM(line.h, line.m)
  THEN [dt |-> DateTime(line.h, line.m), w |-> w]
  ELSE [dt |-> DateTime(0, 0), w |-> w]

\* parseLine taking the hour and minute of a line without testing their ranges
parseLine_NoRangeTest(w, line) ==
  IF line.fmt \in {"dated", "hhmm"}
  THEN [dt |-> DateTime(line.h, line.m), w |-> w]
  ELSE [dt |-> DateTime(0, 0), w |-> [w EXCEPT !.file = [fmt |-> "hhmm", h |-> 0, m |-> 0]]]

\* returns [dt, w]; "YYYY-MM-DD HH:MM" first, then "HH:MM", else reset the file to 00:00
parseLine(w, line) ==
  IF line.fmt = "dated" /\ ValidHM(line.h, line.m)
  THEN [dt |-> DateTime(line.h, line.m), w |-> w]
  ELSE IF line.fmt = "hhmm" /\ ValidHM(line.h, line.m)
  THEN [dt |-> DateTime(line.h, line.m), w |-> w]
  ELSE [dt |-> DateTime(0, 0), w |-> [w EXCEPT !.file = [fmt |-> "hhmm", h |-> 0, m |-> 0]]]

\* returns [dt, w]; a missing file is created with the current local system time,
\* one that cannot be opened for reading is replaced by 00:00
loadLastKnownClockTime(w) ==
  IF w.file.fmt = "missing"
  THEN LET h == w.wall \div 60
           m == w.wall % 60
       IN [dt |-> DateTime(h, m), w |-> [w EXCEPT !.file = [fmt |-> "hhmm", h |-> h, m |-> m]]]
  ELSE IF w.file.fmt = "unreadable"
  THEN [dt |-> DateTime(0, 0), w |-> [w EXCEPT !.file = [fmt |-> "hhmm", h |-> 0, m |-> 0]]]
  ELSE parseLine(w, w.file)

(***************************************************************************)
(* PulseManager                                                            *)
(***************************************************************************)
PulseInit ==
  [in1 |-> "LOW", in2 |-> "LOW", durationMs |-> DefaultDurationMs, pauseMs |-> DefaultPauseMs,
   lastWasA |-> FALSE, lastTrigMs |-> 0, minGapMs |-> DefaultMinGapMs]

PulseBegin(w) ==
  [w EXCEPT !.pulse.in1 = "LOW", !.pulse.in2 = "LOW",
            !.pulse.lastWasA = FALSE, !.pulse.lastTrigMs = 0,
            !.obs.polarity = "none", !.obs.prevPolarity = "none", !.obs.pulseEnd = -1,
            !.obs.retry = FALSE]

setImpulseTiming(w, pulseDurationMs, pauseAfterMs) ==
  [w EXCEPT !.pulse.durationMs = pulseDurationMs, !.pulse.pauseMs = pauseAfterMs]

setMinGapMs(w, ms) == [w EXCEPT !.pulse.minGapMs = ms]

\* drive one polarity for durationMs, coast, wait pauseMs
pulseA(w) ==
  [w EXCEPT !.pulse.in1 = "LOW", !.pulse.in2 = "LOW",
            !.millis = @ + w.pulse.durationMs + w.pulse.pauseMs,
            !.obs.prevPolarity = w.obs.polarity, !.obs.polarity = "A", !.obs.emitted = @ + 1,
            !.obs.pulseEnd = w.millis + w.pulse.durationMs + w.pulse.pauseMs]

pulseB(w) ==
  [w EXCEPT !.pulse.in1 = "LOW", !.pulse.in2 = "LOW",
            !.millis = @ + w.pulse.durationMs + w.pulse.pauseMs,
            !.obs.prevPolarity = w.obs.polarity, !.obs.polarity = "B", !.obs.emitted = @ + 1,
            !.obs.pulseEnd = w.millis + w.pulse.durationMs + w.pulse.pauseMs]

requiredGap(w) == Max2(w.pulse.minGapMs, w.pulse.durationMs + w.pulse.pauseMs + SafetyMs)

\* triggerPulse with the polarity flag left as it was after a pulse
triggerPulse_NoFlip(w, allowBurst) ==
  IF ~allowBurst /\ (w.millis - w.pulse.lastTrigMs) < requiredGap(w)
  THEN [sent |-> FALSE, w |-> [w EXCEPT !.obs.rejected = TRUE, !.obs.retry = TRUE]]
  ELSE LET w1 == IF w.pulse.lastWasA THEN pulseB(w) ELSE pulseA(w)
       IN [sent |-> TRUE,
           w |-> [w1 EXCEPT !.pulse.lastTrigMs = w1.millis,
                            !.obs.burst = allowBurst, !.obs.retry = FALSE]]

\* triggerPulse with the timestamp taken before the blocking pulse instead of after it
triggerPulse_StampAtStart(w, allowBurst) ==
  IF ~allowBurst /\ (w.millis - w.pulse.lastTrigMs) < requiredGap(w)
  THEN [sent |-> FALSE, w |-> [w EXCEPT !.obs.rejected = TRUE, !.obs.retry = TRUE]]
  ELSE LET w1 == IF w.pulse.lastWasA THEN pulseB(w) ELSE pulseA(w)
       IN [sent |-> TRUE,
           w |-> [w1 EXCEPT !.pulse.lastWasA = ~w.pulse.lastWasA,
                            !.pulse.lastTrigMs = w.millis,
                            !.obs.burst = allowBurst, !.obs.retry = FALSE]]

\* triggerPulse taking the timestamp on a rejected call too
triggerPulse_StampOnReject(w, allowBurst) ==
  IF ~allowBurst /\ (w.millis - w.pulse.lastTrigMs) < requiredGap(w)
  THEN [sent |-> FALSE, w |-> [w EXCEPT !.pulse.lastTrigMs = w.millis,
                                        !.obs.rejected = TRUE, !.obs.retry = TRUE]]
  ELSE LET w1 == IF w.pulse.lastWasA THEN pulseB(w) ELSE pulseA(w)
       IN [sent |-> TRUE,
           w |-> [w1 EXCEPT !.pulse.lastWasA = ~w.pulse.lastWasA,
                            !.pulse.lastTrigMs = w1.millis,
                            !.obs.burst = allowBurst, !.obs.retry = FALSE]]

\* triggerPulse applying the guard to burst calls too
triggerPulse_GuardBurst(w, allowBurst) ==
  IF (w.millis - w.pulse.lastTrigMs) < requiredGap(w)
  THEN [sent |-> FALSE, w |-> [w EXCEPT !.obs.rejected = TRUE, !.obs.retry = TRUE]]
  ELSE LET w1 == IF w.pulse.lastWasA THEN pulseB(w) ELSE pulseA(w)
       IN [sent |-> TRUE,
           w |-> [w1 EXCEPT !.pulse.lastWasA = ~w.pulse.lastWasA,
                            !.pulse.lastTrigMs = w1.millis,
                            !.obs.burst = allowBurst, !.obs.retry = FALSE]]

\* returns [sent, w]
triggerPulse(w, allowBurst) ==
  IF ~allowBurst /\ (w.millis - w.pulse.lastTrigMs) < requiredGap(w)
  THEN [sent |-> FALSE, w |-> [w EXCEPT !.obs.rejected = TRUE, !.obs.retry = TRUE]]
  ELSE LET w1 == IF w.pulse.lastWasA THEN pulseB(w) ELSE pulseA(w)
       IN [sent |-> TRUE,
           w |-> [w1 EXCEPT !.pulse.lastWasA = ~w.pulse.lastWasA,
                            !.pulse.lastTrigMs = w1.millis,
                            !.obs.burst = allowBurst, !.obs.retry = FALSE]]

(***************************************************************************)
(* SystemManager                                                           *)
(***************************************************************************)
SysInit ==
  [lastImpulseMinutes |-> -1, lastNtpSyncMs |-> 0, catchupActive |-> FALSE,
   catchupRemaining |-> 0, catchupLastPulseMs |-> 0, catchupIntervalMs |-> 0]

\* In AUTO the system clock, in MANUAL the RTC: the source the mode selects
Now(w) == SystemLocalNow(w)

startCatchUp(w, diffMinutes, reason) ==
  Log([w EXCEPT !.sys.catchupRemaining = diffMinutes,
                !.sys.catchupIntervalMs = cfg.impulseDelayMs + PauseAfterMs + SafetyMs,
                !.sys.catchupLastPulseMs = 0,
                !.sys.catchupActive = TRUE,
                !.obs.sess = [n |-> diffMinutes, pulses |-> 0, reason |-> reason],
                !.obs.realigned = -1,
                !.obs.origin = [start |-> w.sys.lastImpulseMinutes, wall |-> w.wall]],
      "catchup-start")

\* tryStartCatchUp without the comparison against maxCatchupMinutes
tryStartCatchUp_NoCap(w, reason) ==
  IF w.sys.catchupActive THEN w
  ELSE LET realMin == minutesOfDay(Now(w))
           diff == diffForwardMinutes(w.sys.lastImpulseMinutes, realMin)
       IN IF diff = 0 THEN Log(w, "up-to-date")
          ELSE startCatchUp(w, diff, reason)

\* tryStartCatchUp without the return on a difference of 0
tryStartCatchUp_StartOnZero(w, reason) ==
  IF w.sys.catchupActive THEN w
  ELSE LET realMin == minutesOfDay(Now(w))
           diff == diffForwardMinutes(w.sys.lastImpulseMinutes, realMin)
       IN IF diff > cfg.maxCatchupMinutes
          THEN Log([w EXCEPT !.obs.refused = TRUE], "error-exceeds-limit")
          ELSE startCatchUp(w, diff, reason)

tryStartCatchUp(w, reason) ==
  IF w.sys.catchupActive THEN w
  ELSE LET realMin == minutesOfDay(Now(w))
           diff == diffForwardMinutes(w.sys.lastImpulseMinutes, realMin)
       IN IF diff = 0 THEN Log(w, "up-to-date")
          ELSE IF diff > cfg.maxCatchupMinutes
          THEN Log([w EXCEPT !.obs.refused = TRUE], "error-exceeds-limit")
          ELSE startCatchUp(w, diff, reason)

\* CatchUpStep testing catchupRemaining before decrementing it
CatchUpStep_PostDecrement(w) ==
  LET next == (w.sys.lastImpulseMinutes + 1) % MinutesPerDay
      w1 == [w EXCEPT !.sys.catchupLastPulseMs = w.millis,
                      !.sys.lastImpulseMinutes = next,
                      !.obs.sess.pulses = @ + 1]
      w2 == saveClockTime(w1, DateTime(next \div 60, next % 60))
      w3 == [w2 EXCEPT !.sys.catchupRemaining = @ - 1,
                       !.obs.step = [lim |-> w2.sys.lastImpulseMinutes, file |-> w2.file,
                                     remaining |-> w2.sys.catchupRemaining - 1]]
  IN IF w2.sys.catchupRemaining <= 0
     THEN LET now == Now(w3)
              w4 == [w3 EXCEPT !.sys.catchupActive = FALSE,
                               !.sys.lastImpulseMinutes = minutesOfDay(now)]
              w5 == saveClockTime(w4, DateTime(now.hour, now.minute))
          IN Log([w5 EXCEPT !.obs.done = [n |-> w5.obs.sess.n, pulses |-> w5.obs.sess.pulses,
                                          reason |-> w5.obs.sess.reason,
                                          lim |-> w5.sys.lastImpulseMinutes,
                                          wall |-> w5.wall, file |-> w5.file,
                                          active |-> w5.sys.catchupActive],
                          !.obs.realigned = -1],
                 "catchup-finished")
     ELSE w3

\* CatchUpStep persisting only when the session completes
CatchUpStep_SaveAtEndOnly(w) ==
  LET next == (w.sys.lastImpulseMinutes + 1) % MinutesPerDay
      w1 == [w EXCEPT !.sys.catchupLastPulseMs = w.millis,
                      !.sys.lastImpulseMinutes = next,
                      !.obs.sess.pulses = @ + 1]
      w3 == [w1 EXCEPT !.sys.catchupRemaining = @ - 1,
                       !.obs.step = [lim |-> w1.sys.lastImpulseMinutes, file |-> w1.file,
                                     remaining |-> w1.sys.catchupRemaining - 1]]
  IN IF w3.sys.catchupRemaining <= 0
     THEN LET now == Now(w3)
              w4 == [w3 EXCEPT !.sys.catchupActive = FALSE,
                               !.sys.lastImpulseMinutes = minutesOfDay(now)]
              w5 == saveClockTime(w4, DateTime(now.hour, now.minute))
          IN Log([w5 EXCEPT !.obs.done = [n |-> w5.obs.sess.n, pulses |-> w5.obs.sess.pulses,
                                          reason |-> w5.obs.sess.reason,
                                          lim |-> w5.sys.lastImpulseMinutes,
                                          wall |-> w5.wall, file |-> w5.file,
                                          active |-> w5.sys.catchupActive],
                          !.obs.realigned = -1],
                 "catchup-finished")
     ELSE w3

\* CatchUpStep storing the minute read from the clock on every pulse
CatchUpStep_SnapEveryPulse(w) ==
  LET next == minutesOfDay(Now(w))
      w1 == [w EXCEPT !.sys.catchupLastPulseMs = w.millis,
                      !.sys.lastImpulseMinutes = next,
                      !.obs.sess.pulses = @ + 1]
      w2 == saveClockTime(w1, DateTime(next \div 60, next % 60))
      w3 == [w2 EXCEPT !.sys.catchupRemaining = @ - 1,
                       !.obs.step = [lim |-> w2.sys.lastImpulseMinutes, file |-> w2.file,
                                     remaining |-> w2.sys.catchupRemaining - 1]]
  IN IF w3.sys.catchupRemaining <= 0
     THEN LET now == Now(w3)
              w4 == [w3 EXCEPT !.sys.catchupActive = FALSE,
                               !.sys.lastImpulseMinutes = minutesOfDay(now)]
              w5 == saveClockTime(w4, DateTime(now.hour, now.minute))
          IN Log([w5 EXCEPT !.obs.done = [n |-> w5.obs.sess.n, pulses |-> w5.obs.sess.pulses,
                                          reason |-> w5.obs.sess.reason,
                                          lim |-> w5.sys.lastImpulseMinutes,
                                          wall |-> w5.wall, file |-> w5.file,
                                          active |-> w5.sys.catchupActive],
                          !.obs.realigned = -1],
                 "catchup-finished")
     ELSE w3

\* CatchUpStep adding one minute without the wrap at 1440
CatchUpStep_NoWrap(w) ==
  LET next == w.sys.lastImpulseMinutes + 1
      w1 == [w EXCEPT !.sys.catchupLastPulseMs = w.millis,
                      !.sys.lastImpulseMinutes = next,
                      !.obs.sess.pulses = @ + 1]
      w2 == saveClockTime(w1, DateTime(next \div 60, next % 60))
      w3 == [w2 EXCEPT !.sys.catchupRemaining = @ - 1,
                       !.obs.step = [lim |-> w2.sys.lastImpulseMinutes, file |-> w2.file,
                                     remaining |-> w2.sys.catchupRemaining - 1]]
  IN IF w3.sys.catchupRemaining <= 0
     THEN LET now == Now(w3)
              w4 == [w3 EXCEPT !.sys.catchupActive = FALSE,
                               !.sys.lastImpulseMinutes = minutesOfDay(now)]
              w5 == saveClockTime(w4, DateTime(now.hour, now.minute))
          IN Log([w5 EXCEPT !.obs.done = [n |-> w5.obs.sess.n, pulses |-> w5.obs.sess.pulses,
                                          reason |-> w5.obs.sess.reason,
                                          lim |-> w5.sys.lastImpulseMinutes,
                                          wall |-> w5.wall, file |-> w5.file,
                                          active |-> w5.sys.catchupActive],
                          !.obs.realigned = -1],
                 "catchup-finished")
     ELSE w3

\* CatchUpStep completing without reading the clock again
CatchUpStep_NoSnap(w) ==
  LET next == (w.sys.lastImpulseMinutes + 1) % MinutesPerDay
      w1 == [w EXCEPT !.sys.catchupLastPulseMs = w.millis,
                      !.sys.lastImpulseMinutes = next,
                      !.obs.sess.pulses = @ + 1]
      w2 == saveClockTime(w1, DateTime(next \div 60, next % 60))
      w3 == [w2 EXCEPT !.sys.catchupRemaining = @ - 1,
                       !.obs.step = [lim |-> w2.sys.lastImpulseMinutes, file |-> w2.file,
                                     remaining |-> w2.sys.catchupRemaining - 1]]
  IN IF w3.sys.catchupRemaining <= 0
     THEN LET w5 == [w3 EXCEPT !.sys.catchupActive = FALSE]
          IN Log([w5 EXCEPT !.obs.done = [n |-> w5.obs.sess.n, pulses |-> w5.obs.sess.pulses,
                                          reason |-> w5.obs.sess.reason,
                                          lim |-> w5.sys.lastImpulseMinutes,
                                          wall |-> w5.wall, file |-> w5.file,
                                          active |-> w5.sys.catchupActive],
                          !.obs.realigned = -1],
                 "catchup-finished")
     ELSE w3

\* the body of tickCatchUp after an accepted pulse
CatchUpStep(w) ==
  LET next == (w.sys.lastImpulseMinutes + 1) % MinutesPerDay
      w1 == [w EXCEPT !.sys.catchupLastPulseMs = w.millis,
                      !.sys.lastImpulseMinutes = next,
                      !.obs.sess.pulses = @ + 1]
      w2 == saveClockTime(w1, DateTime(next \div 60, next % 60))
      w3 == [w2 EXCEPT !.sys.catchupRemaining = @ - 1,
                       !.obs.step = [lim |-> w2.sys.lastImpulseMinutes, file |-> w2.file,
                                     remaining |-> w2.sys.catchupRemaining - 1]]
  IN IF w3.sys.catchupRemaining <= 0
     THEN LET now == Now(w3)
              w4 == [w3 EXCEPT !.sys.catchupActive = FALSE,
                               !.sys.lastImpulseMinutes = minutesOfDay(now)]
              w5 == saveClockTime(w4, DateTime(now.hour, now.minute))
          IN Log([w5 EXCEPT !.obs.done = [n |-> w5.obs.sess.n, pulses |-> w5.obs.sess.pulses,
                                          reason |-> w5.obs.sess.reason,
                                          lim |-> w5.sys.lastImpulseMinutes,
                                          wall |-> w5.wall, file |-> w5.file,
                                          active |-> w5.sys.catchupActive],
                          !.obs.realigned = -1],
                 "catchup-finished")
     ELSE w3

\* tickCatchUp triggering on every call while the session is active
tickCatchUp_NoPacing(w) ==
  IF ~w.sys.catchupActive THEN w
  ELSE LET r == triggerPulse(w, TRUE)
       IN IF ~r.sent THEN r.w ELSE CatchUpStep(r.w)

tickCatchUp(w) ==
  IF ~w.sys.catchupActive THEN w
  ELSE IF w.sys.catchupLastPulseMs = 0
          \/ (w.millis - w.sys.catchupLastPulseMs) >= w.sys.catchupIntervalMs
  THEN LET r == triggerPulse(w, TRUE)
       IN IF ~r.sent THEN r.w ELSE CatchUpStep(r.w)
  ELSE w

\* checkMinuteChange pulsing and persisting without storing lastImpulseMinutes
checkMinuteChange_NoStore(w) ==
  IF w.sys.catchupActive THEN w
  ELSE LET now == Now(w)
           nowMin == minutesOfDay(now)
       IN IF nowMin # w.sys.lastImpulseMinutes
          THEN LET r == triggerPulse(w, FALSE)
               IN IF ~r.sent THEN Log(r.w, "pulse-skipped")
                  ELSE Log(saveClockTime(r.w, DateTime(now.hour, now.minute)),
                           "pulse-for-minute")
          ELSE w

\* checkMinuteChange without the comparison against lastImpulseMinutes
checkMinuteChange_NoCompare(w) ==
  IF w.sys.catchupActive THEN w
  ELSE LET now == Now(w)
           nowMin == minutesOfDay(now)
           r == triggerPulse(w, FALSE)
       IN IF ~r.sent THEN Log(r.w, "pulse-skipped")
          ELSE Log(saveClockTime([r.w EXCEPT !.sys.lastImpulseMinutes = nowMin],
                                 DateTime(now.hour, now.minute)),
                   "pulse-for-minute")

\* checkMinuteChange without the saveClockTime after the pulse
checkMinuteChange_NoSave(w) ==
  IF w.sys.catchupActive THEN w
  ELSE LET now == Now(w)
           nowMin == minutesOfDay(now)
       IN IF nowMin # w.sys.lastImpulseMinutes
          THEN LET r == triggerPulse(w, FALSE)
               IN IF ~r.sent THEN Log(r.w, "pulse-skipped")
                  ELSE Log([r.w EXCEPT !.sys.lastImpulseMinutes = nowMin], "pulse-for-minute")
          ELSE w

\* checkMinuteChange storing and persisting the minute although the pulse was rejected
checkMinuteChange_AdvanceOnReject(w) ==
  IF w.sys.catchupActive THEN w
  ELSE LET now == Now(w)
           nowMin == minutesOfDay(now)
       IN IF nowMin # w.sys.lastImpulseMinutes
          THEN LET r == triggerPulse(w, FALSE)
               IN IF ~r.sent
                  THEN Log(saveClockTime([r.w EXCEPT !.sys.lastImpulseMinutes = nowMin],
                                         DateTime(now.hour, now.minute)),
                           "pulse-skipped")
                  ELSE Log(saveClockTime([r.w EXCEPT !.sys.lastImpulseMinutes = nowMin],
                                         DateTime(now.hour, now.minute)),
                           "pulse-for-minute")
          ELSE w

\* checkMinuteChange without the return while a session is active
checkMinuteChange_NoActiveGate(w) ==
  LET now == Now(w)
      nowMin == minutesOfDay(now)
  IN IF nowMin # w.sys.lastImpulseMinutes
     THEN LET r == triggerPulse(w, FALSE)
          IN IF ~r.sent THEN Log(r.w, "pulse-skipped")
             ELSE Log(saveClockTime([r.w EXCEPT !.sys.lastImpulseMinutes = nowMin],
                                    DateTime(now.hour, now.minute)),
                      "pulse-for-minute")
     ELSE w

checkMinuteChange(w) ==
  IF w.sys.catchupActive THEN w
  ELSE LET now == Now(w)
           nowMin == minutesOfDay(now)
       IN IF nowMin # w.sys.lastImpulseMinutes
          THEN LET r == triggerPulse(w, FALSE)
               IN IF ~r.sent THEN Log(r.w, "pulse-skipped")
                  ELSE Log(saveClockTime([r.w EXCEPT !.sys.lastImpulseMinutes = nowMin],
                                         DateTime(now.hour, now.minute)),
                           "pulse-for-minute")
          ELSE w

\* OnManualClockSet with the arguments of diffForwardMinutes exchanged
OnManualClockSet_ReversedDiff(w, clockMinutes) ==
  LET nowMin == minutesOfDay(Now(w))
      diff == diffForwardMinutes(nowMin, clockMinutes)
      ch == CDiv(clockMinutes, 60)
      cm == CRem(clockMinutes, 60)
      w1 == saveClockTime([w EXCEPT !.sys.lastImpulseMinutes = CRem(clockMinutes, MinutesPerDay),
                                    !.obs.refused = FALSE, !.obs.realigned = -1,
                                    !.obs.aligned = -1],
                          DateTime(ch, cm))
  IN IF diff > cfg.maxCatchupMinutes
     THEN Log([w1 EXCEPT !.obs.base = clockMinutes], "error-manual-exceeds-limit")
     ELSE IF diff = 0 THEN Log([w1 EXCEPT !.obs.aligned = nowMin], "manual-aligned")
     ELSE startCatchUp(w1, diff, "manual")

\* OnManualClockSet refusing an over-cap set without storing the entered minute
OnManualClockSet_RefuseWithoutStore(w, clockMinutes) ==
  LET nowMin == minutesOfDay(Now(w))
      diff == diffForwardMinutes(clockMinutes, nowMin)
      ch == CDiv(clockMinutes, 60)
      cm == CRem(clockMinutes, 60)
      w1 == saveClockTime([w EXCEPT !.sys.lastImpulseMinutes = CRem(clockMinutes, MinutesPerDay),
                                    !.obs.refused = FALSE, !.obs.realigned = -1,
                                    !.obs.aligned = -1],
                          DateTime(ch, cm))
  IN IF diff > cfg.maxCatchupMinutes
     THEN Log([w EXCEPT !.obs.base = clockMinutes], "error-manual-exceeds-limit")
     ELSE IF diff = 0 THEN Log([w1 EXCEPT !.obs.aligned = nowMin], "manual-aligned")
     ELSE startCatchUp(w1, diff, "manual")

OnManualClockSet(w, clockMinutes) ==
  LET nowMin == minutesOfDay(Now(w))
      diff == diffForwardMinutes(clockMinutes, nowMin)
      ch == CDiv(clockMinutes, 60)
      cm == CRem(clockMinutes, 60)
      w1 == saveClockTime([w EXCEPT !.sys.lastImpulseMinutes = CRem(clockMinutes, MinutesPerDay),
                                    !.obs.refused = FALSE, !.obs.realigned = -1,
                                    !.obs.aligned = -1],
                          DateTime(ch, cm))
  IN IF diff > cfg.maxCatchupMinutes
     THEN Log([w1 EXCEPT !.obs.base = clockMinutes], "error-manual-exceeds-limit")
     ELSE IF diff = 0 THEN Log([w1 EXCEPT !.obs.aligned = nowMin], "manual-aligned")
     ELSE startCatchUp(w1, diff, "manual")

\* the system clock as it stands after an NTP sync that moved it by delta seconds
SyncClock(w, delta, flip, back) ==
  LET shift == (delta \div 60) % MinutesPerDay
  IN [w EXCEPT !.wall = IF back THEN (w.wall + MinutesPerDay - shift) % MinutesPerDay
                        ELSE (w.wall + shift) % MinutesPerDay,
               !.obs.lastSync = w.millis,
               !.obs.sync = [done |-> TRUE, delta |-> delta, flip |-> flip, at |-> w.millis,
                             wall |-> w.wall, sys |-> w.sys, file |-> w.file,
                             emitted |-> w.obs.emitted]]

\* IsDstJump with the ends of the band left out
IsDstJump_OpenBand(flip, sysDelta) == flip /\ sysDelta > DstLowSec /\ sysDelta < DstHighSec

IsDstJump(flip, sysDelta) == flip /\ sysDelta >= DstLowSec /\ sysDelta <= DstHighSec

\* the DST alignment updating lastImpulseMinutes without saving it
DstAlign_NoSave(w) ==
  LET after == Now(w)
      nowMin == minutesOfDay(after)
  IN Log([w EXCEPT !.sys.lastImpulseMinutes = nowMin,
                   !.obs.realigned = IF w.sys.catchupActive THEN nowMin ELSE -1],
         "dst-aligned")

\* align state to the current local time without catch-up
DstAlign(w) ==
  LET after == Now(w)
      nowMin == minutesOfDay(after)
  IN Log(saveClockTime([w EXCEPT !.sys.lastImpulseMinutes = nowMin,
                                 !.obs.realigned = IF w.sys.catchupActive THEN nowMin ELSE -1],
                       DateTime(after.hour, after.minute)),
         "dst-aligned")

\* PeriodicSync with a delta equal to the threshold not counted as a correction
PeriodicSync_StrictThreshold(w, delta, flip, back) ==
  IF cfg.mode # "auto" THEN w
  ELSE LET syncEveryMs == cfg.ntpResyncEveryMinutes * 60 * 1000
       IN IF syncEveryMs = 0 THEN w
          ELSE IF (w.millis - w.sys.lastNtpSyncMs) < syncEveryMs THEN w
          ELSE LET w1 == [w EXCEPT !.sys.lastNtpSyncMs = w.millis]
                   w2 == [SyncClock(w1, delta, flip, back) EXCEPT !.millis = @ + SyncSettleMs]
               IN IF delta = 0 THEN w2
                  ELSE IF IsDstJump(flip, delta) THEN DstAlign(w2)
                  ELSE IF delta > cfg.resyncRtcIfDiffSeconds
                  THEN tryStartCatchUp(Log(w2, "ntp-corrected"), "ntp-resync")
                  ELSE w2

\* PeriodicSync without the test of the time since the last sync
PeriodicSync_NoTimer(w, delta, flip, back) ==
  IF cfg.mode # "auto" THEN w
  ELSE LET syncEveryMs == cfg.ntpResyncEveryMinutes * 60 * 1000
       IN IF syncEveryMs = 0 THEN w
          ELSE LET w1 == [w EXCEPT !.sys.lastNtpSyncMs = w.millis]
                   w2 == [SyncClock(w1, delta, flip, back) EXCEPT !.millis = @ + SyncSettleMs]
               IN IF delta = 0 THEN w2
                  ELSE IF IsDstJump(flip, delta) THEN DstAlign(w2)
                  ELSE IF delta >= cfg.resyncRtcIfDiffSeconds
                  THEN tryStartCatchUp(Log(w2, "ntp-corrected"), "ntp-resync")
                  ELSE w2

\* PeriodicSync deciding on the clock as it stood before the sync
PeriodicSync_DecideBeforeSync(w, delta, flip, back) ==
  IF cfg.mode # "auto" THEN w
  ELSE LET syncEveryMs == cfg.ntpResyncEveryMinutes * 60 * 1000
       IN IF syncEveryMs = 0 THEN w
          ELSE IF (w.millis - w.sys.lastNtpSyncMs) < syncEveryMs THEN w
          ELSE LET w1 == [w EXCEPT !.sys.lastNtpSyncMs = w.millis]
                   w2 == [w1 EXCEPT !.millis = @ + SyncSettleMs]
                   w3 == IF delta = 0 THEN w2
                         ELSE IF IsDstJump(flip, delta) THEN DstAlign(w2)
                         ELSE IF delta >= cfg.resyncRtcIfDiffSeconds
                         THEN tryStartCatchUp(Log(w2, "ntp-corrected"), "ntp-resync")
                         ELSE w2
               IN SyncClock(w3, delta, flip, back)

\* loop() from the re-sync timer on
PeriodicSync(w, delta, flip, back) ==
  IF cfg.mode # "auto" THEN w
  ELSE LET syncEveryMs == cfg.ntpResyncEveryMinutes * 60 * 1000
       IN IF syncEveryMs = 0 THEN w
          ELSE IF (w.millis - w.sys.lastNtpSyncMs) < syncEveryMs THEN w
          ELSE LET w1 == [w EXCEPT !.sys.lastNtpSyncMs = w.millis]
                   w2 == [SyncClock(w1, delta, flip, back) EXCEPT !.millis = @ + SyncSettleMs]
               IN IF delta = 0 THEN w2
                  ELSE IF IsDstJump(flip, delta) THEN DstAlign(w2)
                  ELSE IF delta >= cfg.resyncRtcIfDiffSeconds
                  THEN tryStartCatchUp(Log(w2, "ntp-corrected"), "ntp-resync")
                  ELSE w2

loop(w, delta, flip, back) == PeriodicSync(tickCatchUp(checkMinuteChange(w)), delta, flip, back)

begin(w, bootMs, delta, flip, back) ==
  LET isAuto == cfg.mode = "auto"
      wb == [w EXCEPT !.millis = bootMs]
      w0 == IF rtcOk THEN wb ELSE Log(wb, "rtc-init-failed")
      w1 == IF isAuto THEN SyncClock(w0, delta, flip, back) ELSE w0
      sysDelta == IF isAuto THEN delta ELSE 0
      realDstFlip == isAuto /\ flip
      ld == loadLastKnownClockTime(w1)
      w2 == [ld.w EXCEPT !.sys.lastImpulseMinutes = minutesOfDay(ld.dt)]
      w3 == IF IsDstJump(realDstFlip, sysDelta) THEN DstAlign(w2) ELSE w2
      w4 == setImpulseTiming(w3, cfg.impulseDelayMs, PauseAfterMs)
      minGap == Max2(cfg.impulseDelayMs + PauseAfterMs + SafetyMs, DefaultMinGapMs)
      w5 == setMinGapMs(w4, minGap)
      w6 == tryStartCatchUp(w5, "boot")
  IN [w6 EXCEPT !.sys.lastNtpSyncMs = w6.millis]

(***************************************************************************)
(* WebServerManager: POST /api/set-state                                   *)
(***************************************************************************)
\* handleApiSetState accepting hour 24
handleApiSetState_HourUpTo24(w, h, m) ==
  IF ~cfg.webEditEnabled THEN Log(w, "403")
  ELSE IF h < 0 \/ h > 24 \/ m < 0 \/ m > 59 THEN Log(w, "400")
  ELSE LET minutes == h * 60 + m
           w1 == saveClockTime(w, DateTime(h, m))
           w2 == [w1 EXCEPT !.file = [fmt |-> "hhmm", h |-> h, m |-> m],
                            !.obs.target = minutes]
       IN Log(OnManualClockSet(w2, minutes), "200")

handleApiSetState(w, h, m) ==
  IF ~cfg.webEditEnabled THEN Log(w, "403")
  ELSE IF h < 0 \/ h > 23 \/ m < 0 \/ m > 59 THEN Log(w, "400")
  ELSE LET minutes == h * 60 + m
           w1 == saveClockTime(w, DateTime(h, m))
           w2 == [w1 EXCEPT !.file = [fmt |-> "hhmm", h |-> h, m |-> m],
                            !.obs.target = minutes]
       IN Log(OnManualClockSet(w2, minutes), "200")

(***************************************************************************)
(* State machine                                                           *)
(***************************************************************************)
\* sync: whether the operation synced, what the sync did to the clock, and
\* millis(), the minute read, the engine, state.txt and the pulses emitted when it began
NoSync ==
  [done |-> FALSE, delta |-> 0, flip |-> FALSE, at |-> -1, wall |-> -1, sys |-> SysInit,
   file |-> NoFile, emitted |-> 0]
NoSession == [n |-> 0, pulses |-> 0, reason |-> "none"]
NoOrigin == [start |-> -1, wall |-> -1]
NoCarry == [n |-> -1, pulses |-> 0, start |-> -1, wall0 |-> -1, wall |-> -1, lim |-> -1]
NotDone ==
  [n |-> -1, pulses |-> 0, reason |-> "none", lim |-> -1, wall |-> -1, file |-> NoFile,
   active |-> FALSE]
NoStep == [lim |-> -1, file |-> NoFile, remaining |-> -1]

\* observations: what the last operation started from and did (op .. done), and
\* what the run has done so far (polarity and completion time of the last pulse
\* since begin(), the current session and where it started, the session a power
\* loss interrupted, the minute an over-cap manual set left for the next tick,
\* a standing over-cap refusal, the minute a zero-difference manual set was made
\* at while now() has not moved since, millis() when the last NTP sync began (0: none yet), the minute a DST alignment left while a session
\* was running, a guard-rejected minute pulse not yet made up for, the
\* exploration counters); step is what a catch-up pulse left before the
\* completion test
NoPre ==
  [sys |-> SysInit, pulse |-> PulseInit, file |-> NoFile, millis |-> 0, wall |-> 0,
   refused |-> FALSE, pulseEnd |-> -1, base |-> -1, sess |-> NoSession, realigned |-> -1,
   retry |-> FALSE, aligned |-> -1, lastSync |-> 0]

\* the state an operation starts from
Snapshot ==
  [sys |-> sys, pulse |-> pulse, file |-> stateFile, millis |-> millis, wall |-> wall,
   refused |-> obs.refused, pulseEnd |-> obs.pulseEnd, base |-> obs.base, sess |-> obs.sess,
   realigned |-> obs.realigned, retry |-> obs.retry, aligned |-> obs.aligned,
   lastSync |-> obs.lastSync]

ObsInit ==
  [op |-> "init", pre |-> NoPre, emitted |-> 0, burst |-> FALSE, rejected |-> FALSE,
   logs |-> {}, sync |-> NoSync, req |-> <<>>, target |-> -1, done |-> NotDone,
   step |-> NoStep, realigned |-> -1, retry |-> FALSE,
   polarity |-> "none", prevPolarity |-> "none", pulseEnd |-> -1, sess |-> NoSession,
   origin |-> NoOrigin, carry |-> NoCarry, refused |-> FALSE, base |-> -1,
   aligned |-> -1, lastSync |-> 0,
   windowStart |-> 0, events |-> 0]

Fresh(op) ==
  [obs EXCEPT !.op = op, !.pre = IF op \in {"begin", "loop", "set-state"} THEN Snapshot ELSE NoPre,
              !.emitted = 0, !.burst = FALSE, !.rejected = FALSE,
              !.logs = {}, !.sync = NoSync, !.req = <<>>, !.target = -1, !.done = NotDone,
              !.step = NoStep,
              !.base = IF op \in {"begin", "loop", "set-state"} THEN -1 ELSE @,
              !.aligned = IF op = "begin" \/ (op = "loop" /\ wall # @) THEN -1 ELSE @]

\* the state at the start of an operation, with the per-operation observations cleared
World(op) ==
  [pulse |-> pulse, sys |-> sys, file |-> stateFile, millis |-> millis, wall |-> wall,
   obs |-> Fresh(op)]

Commit(w) ==
  /\ pulse' = w.pulse
  /\ sys' = w.sys
  /\ stateFile' = w.file
  /\ millis' = w.millis
  /\ wall' = w.wall
  /\ obs' = w.obs

\* a call of a static helper on its own: which helper, its arguments, its result
NoCall == [fn |-> "none", a |-> 0, b |-> 0, r |-> 0]

Init ==
  /\ pc = "boot"
  /\ cfg \in Configs
  /\ rtcOk = TRUE
  /\ pulse = PulseInit
  /\ sys = SysInit
  /\ stateFile \in InitFiles
  /\ millis = 0
  /\ wall \in InitWalls
  /\ obs = ObsInit
  /\ call = NoCall

\* setup(): pulseManager.begin() then systemManager->begin()
Begin ==
  /\ pc = "boot"
  /\ \E bootMs \in BootTimes, o \in (IF rtcOk THEN BootSyncOutcomes ELSE OfflineSyncOutcomes) :
       Commit(begin(PulseBegin(World("begin")), bootMs, o.delta, o.flip, o.back))
  /\ pc' = "loop"
  /\ UNCHANGED <<cfg, rtcOk, call>>

\* loop(): systemManager->loop()
SystemLoop ==
  /\ pc = "loop"
  /\ \E o \in (IF rtcOk THEN SyncOutcomes ELSE OfflineSyncOutcomes) :
       Commit(loop(World("loop"), o.delta, o.flip, o.back))
  /\ pc' = "web"
  /\ UNCHANGED <<cfg, rtcOk, call>>

\* loop(): webServerManager->handleClient() with no set-state request pending
HandleClientIdle ==
  /\ pc = "web"
  /\ pc' = "delay"
  /\ obs' = Fresh("idle")
  /\ UNCHANGED <<cfg, rtcOk, pulse, sys, stateFile, millis, wall, call>>

Requests ==
  { <<((wall + MinutesPerDay - d) % MinutesPerDay) \div 60,
      ((wall + MinutesPerDay - d) % MinutesPerDay) % 60>> : d \in ManualBehind } \cup BadRequests

\* loop(): webServerManager->handleClient() serving POST /api/set-state
HandleClientSetState ==
  /\ pc = "web"
  /\ obs.events < MaxEvents
  /\ \E r \in Requests :
       Commit(handleApiSetState([World("set-state") EXCEPT !.obs.events = @ + 1, !.obs.req = r],
                                r[1], r[2]))
  /\ pc' = "delay"
  /\ UNCHANGED <<cfg, rtcOk, call>>

\* loop(): delay(20) and whatever else the iteration took, up to the bound maxMs
\* of the explored window; the minute may roll over meanwhile
DelayWithin(maxMs) ==
  /\ pc = "delay"
  /\ \E d \in ShortDelays, adv \in {0, 1} :
       /\ millis + d - obs.windowStart <= maxMs
       /\ adv = 1 => obs.events < MaxEvents
       /\ millis' = millis + d
       /\ wall' = (wall + adv) % MinutesPerDay
       /\ obs' = [Fresh("delay") EXCEPT !.events = @ + adv]
  /\ pc' = "loop"
  /\ UNCHANGED <<cfg, rtcOk, pulse, sys, stateFile, call>>

Delay == DelayWithin(MaxMs)

\* a full minute passes between two iterations
LongGap ==
  /\ pc = "delay"
  /\ obs.events < MaxEvents
  /\ millis' = millis + LongGapMs
  /\ wall' = (wall + 1) % MinutesPerDay
  /\ obs' = [Fresh("long-gap") EXCEPT !.events = @ + 1, !.windowStart = millis + LongGapMs]
  /\ pc' = "loop"
  /\ UNCHANGED <<cfg, rtcOk, pulse, sys, stateFile, call>>

\* power loss: memory is lost, state.txt is kept; the wall clock is kept by the
\* RTC and restarts from the epoch without one
Restart ==
  /\ pc = "delay"
  /\ obs.events < MaxEvents
  /\ pc' = "boot"
  /\ pulse' = PulseInit
  /\ sys' = SysInit
  /\ millis' = 0
  /\ obs' = [ObsInit EXCEPT !.op = "restart", !.events = obs.events + 1,
                            !.carry = IF sys.catchupActive
                                      THEN [n |-> obs.sess.n, pulses |-> obs.sess.pulses,
                                            start |-> obs.origin.start, wall0 |-> obs.origin.wall,
                                            wall |-> wall, lim |-> sys.lastImpulseMinutes]
                                      ELSE NoCarry]
  /\ wall' = IF rtcOk THEN wall ELSE UnsetClock
  /\ UNCHANGED <<cfg, rtcOk, stateFile, call>>

Next ==
  \/ Begin
  \/ SystemLoop
  \/ HandleClientIdle
  \/ HandleClientSetState
  \/ Delay
  \/ LongGap
  \/ Restart

Spec == Init /\ [][Next]_vars

TypeOK ==
  /\ pc \in {"boot", "loop", "web", "delay"}
  /\ cfg \in Configs
  /\ millis >= 0
  /\ obs.emitted \in 0..1

(***************************************************************************)
(* The catch-up scenario 00:00 -> 00:07 under a cap of 7                   *)
(***************************************************************************)
\* loop iterations explored in the scenario: seven pulses and the gaps between them
MaxCatchUpMs == 7000

SevenConfig ==
  [mode |-> "auto", impulseDelayMs |-> 250, maxCatchupMinutes |-> 7,
   resyncRtcIfDiffSeconds |-> 60, ntpResyncEveryMinutes |-> 1, webEditEnabled |-> TRUE]

InitSeven ==
  /\ pc = "boot"
  /\ cfg = SevenConfig
  /\ rtcOk = TRUE
  /\ pulse = PulseInit
  /\ sys = SysInit
  /\ stateFile = [fmt |-> "hhmm", h |-> 0, m |-> 0]
  /\ millis = 0
  /\ wall = 7
  /\ obs = ObsInit
  /\ call = NoCall

DelaySeven == DelayWithin(MaxCatchUpMs)

NextSeven ==
  \/ Begin
  \/ SystemLoop
  \/ HandleClientIdle
  \/ HandleClientSetState
  \/ DelaySeven

SpecSeven == InitSeven /\ [][NextSeven]_vars

(***************************************************************************)
(* No time source: the RTC does not answer and NTP is never configured     *)
(***************************************************************************)
InitOffline ==
  /\ pc = "boot"
  /\ cfg \in { c \in Configs : c.mode = "auto" }
  /\ rtcOk = FALSE
  /\ pulse = PulseInit
  /\ sys = SysInit
  /\ stateFile \in InitFiles
  /\ millis = 0
  /\ wall = UnsetClock
  /\ obs = ObsInit
  /\ call = NoCall

SpecOffline == InitOffline /\ [][Next]_vars

(***************************************************************************)
(* The loop running on: loop() is called again and again (Arduino), with   *)
(* no manual set and no power loss.  The iterations explored go on past    *)
(* the window for as long as a guard-rejected minute pulse is owed.        *)
(***************************************************************************)
\* iterations explored past the window while a rejected minute pulse is owed
RetryGraceMs == 1200

\* the engine is Idle behind the clock and its last normal attempt was rejected
RetryPending == obs.retry /\ ~sys.catchupActive /\ wall # sys.lastImpulseMinutes

RetryWindowMs == IF RetryPending THEN MaxMs + RetryGraceMs ELSE MaxMs

DelayRetry == DelayWithin(RetryWindowMs)

NextRetry ==
  \/ Begin
  \/ SystemLoop
  \/ HandleClientIdle
  \/ DelayRetry
  \/ LongGap

\* The steps of NextRetry by the position they leave: from "boot" only Begin,
\* from "loop" only SystemLoop, from "web" only HandleClientIdle, and from
\* "delay" by a short delay only DelayRetry.  Begin, SystemLoop and
\* HandleClientIdle are enabled whenever pc is at their position, DelayRetry
\* whenever a short delay stays inside the window.
BeginStep == pc = "boot" /\ pc' = "loop"
LoopStep == pc = "loop" /\ pc' = "web"
WebStep == pc = "web" /\ pc' = "delay"
DelayStep ==
  /\ pc = "delay" /\ pc' = "loop"
  /\ \E d \in ShortDelays : millis + d - obs.windowStart <= RetryWindowMs /\ millis' = millis + d

\* setup() runs to its end and loop() is called again as soon as it returns
SpecRetry ==
  /\ Init
  /\ [][NextRetry]_vars
  /\ WF_pc(BeginStep) /\ WF_pc(LoopStep) /\ WF_pc(WebStep) /\ WF_<<pc, millis>>(DelayStep)

(***************************************************************************)
(* diffForwardMinutes on every pair of minutes-of-day                      *)
(***************************************************************************)
MinuteOfDay == 0 .. (MinutesPerDay - 1)

InitDiff ==
  /\ pc = "call"
  /\ cfg = SevenConfig
  /\ rtcOk = TRUE
  /\ pulse = PulseInit
  /\ sys = SysInit
  /\ stateFile = NoFile
  /\ millis = 0
  /\ wall = 0
  /\ obs = ObsInit
  /\ call \in { [fn |-> "pending", a |-> x, b |-> 0, r |-> 0] : x \in MinuteOfDay }

CallDiffForward ==
  /\ pc = "call"
  /\ call.fn = "pending"
  /\ \E to \in MinuteOfDay :
       call' = [fn |-> "diffForwardMinutes", a |-> call.a, b |-> to,
                r |-> diffForwardMinutes(call.a, to)]
  /\ UNCHANGED <<pc, cfg, rtcOk, pulse, sys, stateFile, millis, wall, obs>>

NextDiff == CallDiffForward

SpecDiff == InitDiff /\ [][NextDiff]_vars

(***************************************************************************)
(* Syncs at the ends of the DST band: corrections of 3299, 3300, 3900 and  *)
(* 3901 s, with and without a flip of the DST flag                         *)
(***************************************************************************)
BandSyncOutcomes ==
  { [delta |-> d, flip |-> f, back |-> FALSE] : d \in {0, 3299, 3300, 3900, 3901}, f \in BOOLEAN }

BeginBand ==
  /\ pc = "boot"
  /\ \E bootMs \in BootTimes, o \in BandSyncOutcomes :
       Commit(begin(PulseBegin(World("begin")), bootMs, o.delta, o.flip, o.back))
  /\ pc' = "loop"
  /\ UNCHANGED <<cfg, rtcOk, call>>

SystemLoopBand ==
  /\ pc = "loop"
  /\ \E o \in BandSyncOutcomes :
       Commit(loop(World("loop"), o.delta, o.flip, o.back))
  /\ pc' = "web"
  /\ UNCHANGED <<cfg, rtcOk, call>>

NextBand ==
  \/ BeginBand
  \/ SystemLoopBand
  \/ HandleClientIdle
  \/ Delay
  \/ LongGap

SpecBand == Init /\ [][NextBand]_vars

(***************************************************************************)
(* triggerPulse on its own: either mode, any time after the last pulse      *)
(***************************************************************************)
\* milliseconds between the completion of the last pulse and the call
PulseElapsed == { 0, 1, 449, 450, 599, 600, 699, 700, 1000 }
\* millis() when the last pulse completed; 0 stands for no pulse since begin()
PulseStamps == { 0, 5000 }

\* the driver as SystemManager::begin() configures it
ConfiguredPulse(c, lastWasA, lastTrigMs) ==
  [in1 |-> "LOW", in2 |-> "LOW", durationMs |-> c.impulseDelayMs, pauseMs |-> PauseAfterMs,
   lastWasA |-> lastWasA, lastTrigMs |-> lastTrigMs,
   minGapMs |-> Max2(c.impulseDelayMs + PauseAfterMs + SafetyMs, DefaultMinGapMs)]

InitPulse ==
  /\ pc = "call"
  /\ cfg \in Configs
  /\ rtcOk = TRUE
  /\ \E a \in BOOLEAN, t \in PulseStamps :
       /\ t = 0 => ~a
       /\ pulse = ConfiguredPulse(cfg, a, t)
       /\ obs = [ObsInit EXCEPT !.polarity = IF a THEN "A" ELSE IF t > 0 THEN "B" ELSE "none",
                                !.prevPolarity = IF a /\ t > 0 THEN "B"
                                                 ELSE IF t > 0 THEN "A" ELSE "none",
                                !.pulseEnd = IF t > 0 THEN t ELSE -1]
  /\ sys = SysInit
  /\ stateFile = NoFile
  /\ millis \in { pulse.lastTrigMs + e : e \in PulseElapsed }
  /\ wall = 0
  /\ call \in { [fn |-> "pending", a |-> burst, b |-> 0, r |-> FALSE] : burst \in BOOLEAN }

CallTrigger ==
  /\ pc = "call"
  /\ call.fn = "pending"
  /\ LET r == triggerPulse(World("trigger"), call.a)
     IN /\ call' = [call EXCEPT !.fn = "triggerPulse", !.b = millis - pulse.lastTrigMs,
                                !.r = r.sent]
        /\ pulse' = r.w.pulse
        /\ millis' = r.w.millis
        /\ obs' = [r.w.obs EXCEPT !.pre = Snapshot]
  /\ UNCHANGED <<pc, cfg, rtcOk, sys, stateFile, wall>>

NextPulse == CallTrigger

SpecPulse == InitPulse /\ [][NextPulse]_vars

(***************************************************************************)
(* loadLastKnownClockTime on every kind of state.txt                       *)
(***************************************************************************)
\* no file, a file that cannot be opened, a line neither sscanf matches, HH:MM
\* and YYYY-MM-DD HH:MM lines with fields in and out of range
LoadFiles ==
  { NoFile, [fmt |-> "unreadable", h |-> 0, m |-> 0], [fmt |-> "garbage", h |-> 0, m |-> 0] }
    \cup { [fmt |-> f, h |-> hm[1], m |-> hm[2]] :
             f \in {"hhmm", "dated"},
             hm \in { <<0, 0>>, <<7, 5>>, <<23, 59>>, <<24, 0>>, <<12, 60>>, <<-1, 30>> } }

InitLoad ==
  /\ pc = "call"
  /\ cfg = SevenConfig
  /\ rtcOk = TRUE
  /\ pulse = PulseInit
  /\ sys = SysInit
  /\ stateFile \in LoadFiles
  /\ millis = 0
  /\ wall \in MinuteOfDay
  /\ obs = ObsInit
  /\ call = [fn |-> "pending", a |-> stateFile, b |-> wall, r |-> DateTime(0, 0)]

CallLoad ==
  /\ pc = "call"
  /\ call.fn = "pending"
  /\ LET ld == loadLastKnownClockTime(World("load"))
     IN /\ call' = [call EXCEPT !.fn = "loadLastKnownClockTime", !.r = ld.dt]
        /\ stateFile' = ld.w.file
  /\ UNCHANGED <<pc, cfg, rtcOk, pulse, sys, millis, wall, obs>>

NextLoad == CallLoad

SpecLoad == InitLoad /\ [][NextLoad]_vars

(***************************************************************************)
(* Booting from whatever state.txt holds: unparsable, unreadable, out of    *)
(* range, dated, or the minute before the last of the day                  *)
(***************************************************************************)
RangeFiles ==
  { [fmt |-> "garbage", h |-> 0, m |-> 0], [fmt |-> "unreadable", h |-> 0, m |-> 0],
    [fmt |-> "hhmm", h |-> 24, m |-> 0], [fmt |-> "hhmm", h |-> 12, m |-> 60],
    [fmt |-> "hhmm", h |-> -1, m |-> 30], [fmt |-> "dated", h |-> 0, m |-> 0],
    [fmt |-> "hhmm", h |-> 23, m |-> 58] }

InitRange ==
  /\ pc = "boot"
  /\ cfg \in Configs
  /\ rtcOk = TRUE
  /\ pulse = PulseInit
  /\ sys = SysInit
  /\ stateFile \in RangeFiles
  /\ millis = 0
  /\ wall = 1
  /\ obs = ObsInit
  /\ call = NoCall

SpecRange == InitRange /\ [][Next]_vars

(***************************************************************************)
(* state.txt as text: what saveClockTime writes and what                   *)
(* loadLastKnownClockTime reads back.  A text is a sequence of characters. *)
(***************************************************************************)
DigitChars == <<"0", "1", "2", "3", "4", "5", "6", "7", "8", "9">>
IsDigit(c) == \E i \in 1..10 : DigitChars[i] = c
DigitValue(c) == (CHOOSE i \in 1..10 : DigitChars[i] = c) - 1
IsSpace(c) == c \in {" ", "\t", "\r", "\n"}

\* snprintf(buffer, 6, "%02d:%02d", hour, minute), for fields of at most two digits
snprintfHHMM(dt) ==
  <<DigitChars[(dt.hour \div 10) + 1], DigitChars[(dt.hour % 10) + 1], ":",
    DigitChars[(dt.minute \div 10) + 1], DigitChars[(dt.minute % 10) + 1]>>

\* File::println: the text, then CR LF
println(text) == text \o <<"\r", "\n">>

\* SD.open(path, FILE_WRITE) keeping what the file held and writing at its end
OpenFileWrite_Append(content) == content

\* SD.open(path, FILE_WRITE) on the ESP32 core ("w"): the file is created or emptied
OpenFileWrite(content) == <<>>

\* the file after saveClockTime(dt)
saveClockTimeText(content, dt) == OpenFileWrite(content) \o println(snprintfHHMM(dt))

\* Stream::readStringUntil: the characters before the first terminator
RECURSIVE readStringUntil(_, _)
readStringUntil(text, terminator) ==
  IF text = <<>> \/ Head(text) = terminator THEN <<>>
  ELSE <<Head(text)>> \o readStringUntil(Tail(text), terminator)

RECURSIVE SkipSpace(_, _)
SkipSpace(s, i) == IF i <= Len(s) /\ IsSpace(s[i]) THEN SkipSpace(s, i + 1) ELSE i

RECURSIVE ScanDigits(_, _, _)
ScanDigits(s, i, acc) ==
  IF i <= Len(s) /\ IsDigit(s[i]) THEN ScanDigits(s, i + 1, acc * 10 + DigitValue(s[i]))
  ELSE [val |-> acc, next |-> i]

\* sscanf %d at position i: white space, an optional sign, decimal digits
ScanInt(s, i) ==
  LET j == SkipSpace(s, i)
      signed == j <= Len(s) /\ s[j] \in {"-", "+"}
      k == IF signed THEN j + 1 ELSE j
      d == ScanDigits(s, k, 0)
  IN [ok |-> d.next > k, val |-> IF signed /\ s[j] = "-" THEN -d.val ELSE d.val,
      next |-> d.next]

\* a literal character of the format at position i
ScanLit(s, i, c) == i <= Len(s) /\ s[i] = c

\* sscanf(line, "%d:%d", &h, &m): the number of fields assigned and their values
sscanfHHMM(s, h0, m0) ==
  LET a == ScanInt(s, 1)
  IN IF ~a.ok THEN [n |-> 0, h |-> h0, m |-> m0]
     ELSE IF ~ScanLit(s, a.next, ":") THEN [n |-> 1, h |-> a.val, m |-> m0]
     ELSE LET b == ScanInt(s, a.next + 1)
          IN IF ~b.ok THEN [n |-> 1, h |-> a.val, m |-> m0]
             ELSE [n |-> 2, h |-> a.val, m |-> b.val]

\* sscanf(line, "%d-%d-%d %d:%d", &y, &M, &d, &h, &m)
sscanfDated(s) ==
  LET y == ScanInt(s, 1)
  IN IF ~y.ok THEN [n |-> 0, h |-> -1, m |-> -1]
     ELSE IF ~ScanLit(s, y.next, "-") THEN [n |-> 1, h |-> -1, m |-> -1]
     ELSE LET mo == ScanInt(s, y.next + 1)
          IN IF ~mo.ok \/ ~ScanLit(s, mo.next, "-") THEN [n |-> IF mo.ok THEN 2 ELSE 1, h |-> -1, m |-> -1]
             ELSE LET d == ScanInt(s, mo.next + 1)
                  IN IF ~d.ok THEN [n |-> 2, h |-> -1, m |-> -1]
                     ELSE LET hh == ScanInt(s, SkipSpace(s, d.next))
                          IN IF ~hh.ok THEN [n |-> 3, h |-> -1, m |-> -1]
                             ELSE IF ~ScanLit(s, hh.next, ":") THEN [n |-> 4, h |-> hh.val, m |-> -1]
                             ELSE LET mm == ScanInt(s, hh.next + 1)
                                  IN IF ~mm.ok THEN [n |-> 4, h |-> hh.val, m |-> -1]
                                     ELSE [n |-> 5, h |-> hh.val, m |-> mm.val]

\* parseLine on the text of a line, with the file as it is afterwards
parseLineText(content, line) ==
  LET dated == sscanfDated(line)
      plain == sscanfHHMM(line, dated.h, dated.m)
  IN IF dated.n = 5 /\ ValidHM(dated.h, dated.m)
     THEN [dt |-> DateTime(dated.h, dated.m), content |-> content]
     ELSE IF plain.n = 2 /\ ValidHM(plain.h, plain.m)
     THEN [dt |-> DateTime(plain.h, plain.m), content |-> content]
     ELSE [dt |-> DateTime(0, 0),
           content |-> OpenFileWrite(content) \o println(<<"0", "0", ":", "0", "0">>)]

\* loadLastKnownClockTime on an existing, readable file
loadLastKnownClockTimeText(content) == parseLineText(content, readStringUntil(content, "\n"))

\* minutes saved one after the other before the load: one, or two in a row
StoreSaves ==
  { <<m>> : m \in MinuteOfDay } \cup { <<m0, m>> : m0 \in {0, 754, 1439}, m \in MinuteOfDay }

\* what state.txt holds before the first save: nothing, or a line of an earlier run
StoreContents == { <<>>, println(snprintfHHMM(DateTime(23, 59))) }

InitStore ==
  /\ pc = "call"
  /\ cfg = SevenConfig
  /\ rtcOk = TRUE
  /\ pulse = PulseInit
  /\ sys = SysInit
  /\ millis = 0
  /\ wall = 0
  /\ obs = ObsInit
  /\ \E c \in StoreContents, saves \in StoreSaves :
       /\ stateFile = IF c = <<>> THEN NoFile ELSE formatDateTime(DateTime(23, 59))
       /\ call = [fn |-> "pending", a |-> saves, b |-> c, r |-> -1]

\* saveClockTime(dt) for the next minute-of-day, as the engine builds dt from it
StoreSave ==
  /\ pc = "call"
  /\ call.fn = "pending"
  /\ call.a # <<>>
  /\ LET m == Head(call.a)
         dt == DateTime(m \div 60, m % 60)
     IN /\ call' = [call EXCEPT !.a = Tail(@), !.b = saveClockTimeText(@, dt)]
        /\ stateFile' = saveClockTime(World("save"), dt).file
        /\ obs' = [obs EXCEPT !.op = "save", !.target = m, !.events = @ + 1]
  /\ UNCHANGED <<pc, cfg, rtcOk, pulse, sys, millis, wall>>

\* loadLastKnownClockTime() after the last save
StoreLoad ==
  /\ pc = "call"
  /\ call.fn = "pending"
  /\ call.a = <<>>
  /\ LET ld == loadLastKnownClockTimeText(call.b)
     IN /\ call' = [call EXCEPT !.fn = "loadLastKnownClockTime", !.b = ld.content,
                                !.r = minutesOfDay(ld.dt)]
        /\ stateFile' = loadLastKnownClockTime(World("load")).w.file
        /\ obs' = [obs EXCEPT !.op = "load"]
  /\ UNCHANGED <<pc, cfg, rtcOk, pulse, sys, millis, wall>>

NextStore == StoreSave \/ StoreLoad

SpecStore == InitStore /\ [][NextStore]_vars

(***************************************************************************)
(* Properties                                                              *)
(***************************************************************************)
lim == sys.lastImpulseMinutes
pre == obs.pre
preLim == obs.pre.sys.lastImpulseMinutes
preIdle == ~obs.pre.sys.catchupActive
preDiff == diffForwardMinutes(obs.pre.sys.lastImpulseMinutes, obs.pre.wall)
\* the guard interval had run out when the operation started
preGapOpen ==
  (obs.pre.millis - obs.pre.pulse.lastTrigMs)
    >= Max2(obs.pre.pulse.minGapMs, obs.pre.pulse.durationMs + obs.pre.pulse.pauseMs + 50)
HHMM(min) == [fmt |-> "hhmm", h |-> min \div 60, m |-> min % 60]
InDstBand == obs.sync.done /\ obs.sync.flip /\ obs.sync.delta >= 3600 - 300 /\ obs.sync.delta <= 3600 + 300

\* C1: a loop() that starts Idle one minute behind the clock, with the guard
\* interval elapsed, emits exactly one normal pulse and leaves PhysicalMinute at
\* the minute it read; while the guard is closed it emits nothing and leaves
\* PhysicalMinute alone; once PhysicalMinute equals the minute it emits nothing
\* more for it.
C1_MinuteTick ==
  (obs.op = "loop" /\ preIdle) =>
    /\ (preDiff = 1 /\ preGapOpen) =>
         /\ obs.emitted = 1 /\ ~obs.burst
         /\ lim = pre.wall \/ (obs.sync.done /\ lim = wall)
         /\ ~obs.sync.done => lim = wall
    /\ (preDiff = 1 /\ ~preGapOpen) =>
         /\ obs.emitted = 0
         /\ lim = preLim \/ (obs.sync.done /\ lim = wall)
    /\ preDiff = 0 => obs.emitted = 0

C1_Witness ==
  /\ obs.op = "loop" /\ preIdle /\ preDiff = 1
  /\ obs.emitted = 1 /\ ~obs.burst /\ lim = wall /\ lim = (preLim + 1) % MinutesPerDay

\* C2: accepted pulses alternate A, B, A, ... starting with A after begin(),
\* whether burst or not, one at most per operation; the stored polarity follows
\* the emitted one, and a rejected call leaves it as it was.
C2_Alternation ==
  /\ obs.emitted \in {0, 1}
  /\ obs.polarity = "none" => (obs.prevPolarity = "none" /\ ~pulse.lastWasA)
  /\ obs.polarity = "A" => (obs.prevPolarity \in {"none", "B"} /\ pulse.lastWasA)
  /\ obs.polarity = "B" => (obs.prevPolarity = "A" /\ ~pulse.lastWasA)
  /\ obs.rejected => (obs.emitted = 0 /\ pulse.lastWasA = pre.pulse.lastWasA)

C2_Witness ==
  /\ obs.polarity = "A" /\ obs.prevPolarity = "B" /\ obs.emitted = 1 /\ obs.burst
  /\ ~pre.pulse.lastWasA

\* C3: a triggerPulse(false) made less than
\* max(minGapMs, durationMs + pauseMs + 50) ms after the last pulse completed
\* returns false and leaves polarity, timestamp and outputs as they were.
C3_GuardRejects ==
  (obs.op = "loop" /\ preIdle /\ pre.wall # preLim /\ pre.pulseEnd >= 0
   /\ pre.millis - pre.pulseEnd
        < Max2(pre.pulse.minGapMs, pre.pulse.durationMs + pre.pulse.pauseMs + 50)) =>
    /\ obs.rejected /\ obs.emitted = 0
    /\ pulse = pre.pulse
    /\ obs.polarity = IF pulse.lastWasA THEN "A" ELSE "B"

C3_Witness ==
  /\ obs.op = "loop" /\ obs.rejected /\ obs.emitted = 0 /\ pre.pulseEnd >= 0
  /\ pre.millis - pre.pulseEnd = 600 /\ pre.pulse.durationMs + pre.pulse.pauseMs + 50 = 700
  /\ pulse = pre.pulse

\* C4: a session started with remaining = n has emitted n - remaining pulses at
\* every moment, and ends, Idle, after exactly n accepted pulses with
\* PhysicalMinute equal to the minute read at that moment; from 00:00 with the
\* clock held at 00:07 that is 7 pulses and PhysicalMinute = 7.
C4_CatchUpTermination ==
  /\ sys.catchupActive =>
       (sys.catchupRemaining >= 1 /\ obs.sess.pulses + sys.catchupRemaining = obs.sess.n)
  /\ obs.done.n # -1 =>
       /\ obs.done.pulses = obs.done.n
       /\ ~obs.done.active
       /\ obs.done.lim = obs.done.wall
  /\ (obs.done.n # -1 /\ obs.done.reason = "boot" /\ obs.done.wall = 7 /\ obs.events = 0) =>
       (obs.done.n = 7 /\ lim = 7 /\ stateFile = HHMM(7) /\ ~sys.catchupActive)

C4_Witness ==
  /\ obs.op = "loop" /\ obs.done.n = 7 /\ obs.done.pulses = 7 /\ obs.done.reason = "boot"
  /\ lim = 7 /\ wall = 7 /\ ~sys.catchupActive /\ obs.events = 0

\* C5: a tick that starts Idle with forwardDiff(PhysicalMinute, now) above the
\* cap leaves PhysicalMinute unchanged, starts no session and emits no pulse
\* (stated for the ticks in which no re-sync moves the clock).
C5_CapRejection ==
  (obs.op = "loop" /\ preIdle /\ preDiff > cfg.maxCatchupMinutes /\ ~obs.sync.done) =>
    (lim = preLim /\ obs.emitted = 0 /\ ~sys.catchupActive)

\* C6: after an over-cap refusal every tick stays Idle, emits no pulse and
\* keeps PhysicalMinute and the persisted value, until a manual set or restart
\* (stated for the ticks in which no re-sync moves the clock).
C6_FrozenAfterRefusal ==
  (obs.op = "loop" /\ pre.refused /\ ~obs.sync.done) =>
    (lim = preLim /\ stateFile = pre.file /\ obs.emitted = 0 /\ ~sys.catchupActive)

\* C7: a sync whose DST flag flipped and whose delta is within 3600 +/- 300 s
\* leaves PhysicalMinute at the current minute-of-day, persisted, with no
\* catch-up session started and no pulse other than the one the tick before the
\* sync owed.
C7_DstRealign ==
  (obs.op \in {"begin", "loop"} /\ InDstBand) =>
    /\ lim = wall
    /\ stateFile = HHMM(wall)
    /\ "catchup-start" \notin obs.logs
    /\ sys.catchupActive => pre.sys.catchupActive
    /\ obs.emitted = 1 => (obs.op = "loop" /\ (pre.sys.catchupActive \/ pre.wall # preLim))

C7_Witness ==
  /\ obs.op = "loop" /\ InDstBand /\ preIdle
  /\ diffForwardMinutes(preLim, wall) > cfg.maxCatchupMinutes
  /\ lim = wall /\ ~sys.catchupActive

\* C8: with the engine Idle, a manual set to t with forwardDiff(t, now) = d,
\* 1 <= d <= cap, starts a session of d pulses from t; a manual session ends
\* after exactly as many pulses as it was started with, PhysicalMinute = now.
C8_ManualOverride ==
  /\ (obs.op = "set-state" /\ obs.target >= 0 /\ preIdle
      /\ diffForwardMinutes(obs.target, pre.wall) >= 1
      /\ diffForwardMinutes(obs.target, pre.wall) <= cfg.maxCatchupMinutes) =>
        /\ sys.catchupActive
        /\ sys.catchupRemaining = diffForwardMinutes(obs.target, pre.wall)
        /\ lim = obs.target
        /\ obs.sess = [n |-> sys.catchupRemaining, pulses |-> 0, reason |-> "manual"]
        /\ obs.emitted = 0
  /\ (sys.catchupActive /\ obs.sess.reason = "manual") =>
        obs.sess.pulses + sys.catchupRemaining = obs.sess.n
  /\ (obs.done.n # -1 /\ obs.done.reason = "manual") =>
        (obs.done.pulses = obs.done.n /\ obs.done.lim = obs.done.wall /\ ~obs.done.active)

C8_Witness ==
  /\ obs.done.reason = "manual" /\ obs.done.n = 3 /\ obs.done.pulses = 3
  /\ lim = wall /\ ~sys.catchupActive /\ obs.events = 1

\* C9: a tick that starts Idle with PhysicalMinute = now, the clock not moving
\* during it, changes neither PhysicalMinute nor the persisted value and emits
\* and attempts no pulse.
C9_Idempotence ==
  (obs.op = "loop" /\ preIdle /\ preDiff = 0 /\ wall = pre.wall) =>
    (lim = preLim /\ stateFile = pre.file /\ obs.emitted = 0 /\ ~obs.rejected
     /\ sys = [pre.sys EXCEPT !.lastNtpSyncMs = sys.lastNtpSyncMs])

C9_Witness ==
  /\ obs.op = "loop" /\ preIdle /\ preDiff = 0 /\ wall = pre.wall
  /\ obs.polarity # "none" /\ lim = wall

\* C10 as claimed: in every step PhysicalMinute stays or moves to (m + 1) mod 1440.
C10_NeverSkips ==
  obs.op \in {"loop", "set-state"} => lim \in {preLim, (preLim + 1) % MinutesPerDay}

\* C10 as amended: in every step PhysicalMinute stays, moves to (m + 1) mod 1440
\* (a catch-up pulse), or is set to the minute-of-day read from the clock in
\* that step (minute tick, completion snap, DST realignment) or to the manual
\* target; a catch-up pulse that leaves the session running moves it by one.
C10_StepOrSet ==
  /\ obs.op = "loop" =>
       lim \in {preLim, (preLim + 1) % MinutesPerDay, pre.wall, wall}
  /\ obs.op = "set-state" =>
       lim \in {preLim} \cup (IF obs.target >= 0 THEN {obs.target} ELSE {})
  /\ (obs.op = "loop" /\ obs.emitted = 1 /\ obs.burst /\ obs.done.n = -1 /\ ~InDstBand) =>
       lim = (preLim + 1) % MinutesPerDay

C10_Witness ==
  /\ obs.op = "loop" /\ obs.emitted = 1 /\ obs.burst /\ sys.catchupActive
  /\ lim = (preLim + 1) % MinutesPerDay /\ lim # wall /\ preLim = 1439

\* C11: for all a, b in 0..1439, diffForwardMinutes(a, b) = (b - a + 1440) mod 1440,
\* lies in 0..1439, and is 0 when a = b.
C11_ForwardDiff ==
  call.fn = "diffForwardMinutes" =>
    /\ call.r = (call.b - call.a + 1440) % 1440
    /\ call.r >= 0 /\ call.r <= 1439
    /\ call.a = call.b => call.r = 0
    /\ (call.a + call.r) % 1440 = call.b

C11_Witness ==
  call.fn = "diffForwardMinutes" /\ call.a = 1439 /\ call.b = 0 /\ call.r = 1

PersistedMinute == stateFile.h * 60 + stateFile.m

\* C13: at the end of begin(), of every loop() and of every set-state request
\* the minute-of-day in state.txt equals lastImpulseMinutes.
C13_DurableMirror ==
  obs.op \in {"begin", "loop", "set-state"} =>
    (stateFile.fmt # "missing" /\ PersistedMinute = lim)

C13_Witness ==
  /\ obs.op = "loop" /\ obs.emitted = 1 /\ ~obs.burst
  /\ lim # preLim /\ stateFile # pre.file /\ PersistedMinute = lim

\* C14: while a session is active its remaining count changes only by its own
\* accepted pulses, one at a time; a manual set, the periodic re-sync and the
\* minute tick leave the session as it is.
C14_NoCancellation ==
  /\ (obs.op = "set-state" /\ pre.sys.catchupActive) =>
       /\ sys.catchupActive
       /\ sys.catchupRemaining = pre.sys.catchupRemaining
       /\ sys.catchupLastPulseMs = pre.sys.catchupLastPulseMs
  /\ (obs.op = "loop" /\ pre.sys.catchupActive /\ obs.done.n = -1) =>
       /\ sys.catchupActive
       /\ sys.catchupRemaining = pre.sys.catchupRemaining - obs.emitted

\* C15: while a session stays active, state.txt moves with the pulses emitted:
\* after a loop() that starts and ends inside the session the persisted minute
\* is the one before it plus the pulses of that loop(), mod 1440.
C15_HalfFinishedConsistent ==
  (obs.op = "loop" /\ pre.sys.catchupActive /\ sys.catchupActive) =>
    PersistedMinute = (pre.file.h * 60 + pre.file.m + obs.emitted) % 1440

\* a power loss hit a session that had been started for forwardDiff(start, now),
\* with now() unchanged and lastImpulseMinutes at start + pulses emitted
CarryClean ==
  /\ obs.carry.n # -1
  /\ obs.carry.wall0 = obs.carry.wall
  /\ obs.carry.n = diffForwardMinutes(obs.carry.start, obs.carry.wall0)
  /\ obs.carry.lim = (obs.carry.start + obs.carry.pulses) % MinutesPerDay

C17_SentinelTime ==
  ~rtcOk => (obs.emitted = 0 /\ ~sys.catchupActive /\ "catchup-start" \notin obs.logs)

\* C18: OnManualClockSet is called only with a minute-of-day in 0..1439, that
\* of an accepted request; a request with hour outside 0..23 or minute outside
\* 0..59, or made with web editing disabled, is answered 400 or 403 and changes
\* neither state.txt nor the engine nor the pulse driver.
C18_ManualSetValidation ==
  obs.op = "set-state" =>
    /\ obs.target # -1 =>
         /\ obs.target >= 0 /\ obs.target <= 1439
         /\ cfg.webEditEnabled
         /\ obs.req[1] \in 0 .. 23 /\ obs.req[2] \in 0 .. 59
         /\ obs.target = obs.req[1] * 60 + obs.req[2]
         /\ lim = obs.target
    /\ (~cfg.webEditEnabled \/ obs.req[1] \notin 0 .. 23 \/ obs.req[2] \notin 0 .. 59) =>
         /\ obs.target = -1
         /\ sys = pre.sys /\ stateFile = pre.file /\ pulse = pre.pulse /\ obs.emitted = 0
         /\ obs.logs = IF cfg.webEditEnabled THEN {"400"} ELSE {"403"}

C18_Witness ==
  /\ obs.op = "set-state" /\ obs.req = <<24, 0>> /\ cfg.webEditEnabled
  /\ obs.logs = {"400"} /\ obs.target = -1 /\ sys = pre.sys /\ stateFile = pre.file
  /\ sys.catchupActive

\* the line of state.txt is one parseLine accepts
Parsable(line) ==
  line.fmt \in {"hhmm", "dated"} /\ line.h \in 0 .. 23 /\ line.m \in 0 .. 59

\* C19 as claimed: load() returns 00:00 and writes 00:00 back both when there
\* is no file and when the stored value is unparsable; otherwise it returns the
\* stored time-of-day.
C19_StoreDefaultOnLoad ==
  call.fn = "loadLastKnownClockTime" =>
    IF Parsable(call.a)
    THEN call.r = DateTime(call.a.h, call.a.m)
    ELSE call.r = DateTime(0, 0) /\ stateFile = [fmt |-> "hhmm", h |-> 0, m |-> 0]

\* C19 as amended: an unparsable or unreadable state.txt gives 00:00, written
\* back; a missing state.txt gives the current local system time, written as
\* HH:MM; otherwise the stored time-of-day is returned and the file kept.
C19_LoadDefaults ==
  call.fn = "loadLastKnownClockTime" =>
    IF call.a.fmt = "missing"
    THEN /\ call.r = DateTime(call.b \div 60, call.b % 60)
         /\ stateFile = [fmt |-> "hhmm", h |-> call.b \div 60, m |-> call.b % 60]
    ELSE IF Parsable(call.a)
    THEN call.r = DateTime(call.a.h, call.a.m) /\ stateFile = call.a
    ELSE call.r = DateTime(0, 0) /\ stateFile = [fmt |-> "hhmm", h |-> 0, m |-> 0]

C19_Witness ==
  /\ call.fn = "loadLastKnownClockTime" /\ call.a = [fmt |-> "dated", h |-> 24, m |-> 0]
  /\ call.b = 754 /\ call.r = DateTime(0, 0) /\ stateFile = [fmt |-> "hhmm", h |-> 0, m |-> 0]

\* C20: a manual set to t with forwardDiff(t, now) above the cap starts no
\* session and emits no pulse, logs the refusal, sets PhysicalMinute = t and
\* persists t; the next tick starts from t.
C20_ManualOverCap ==
  /\ (obs.op = "set-state" /\ obs.target >= 0
      /\ diffForwardMinutes(obs.target, pre.wall) > cfg.maxCatchupMinutes) =>
        /\ lim = obs.target
        /\ stateFile = HHMM(obs.target)
        /\ obs.emitted = 0
        /\ "catchup-start" \notin obs.logs
        /\ "error-manual-exceeds-limit" \in obs.logs
        /\ sys.catchupActive = pre.sys.catchupActive
        /\ sys.catchupRemaining = pre.sys.catchupRemaining
        /\ obs.base = obs.target
  /\ (obs.op = "loop" /\ pre.base >= 0) =>
        /\ preLim = pre.base
        /\ pre.file = HHMM(pre.base)
        /\ preDiff = diffForwardMinutes(pre.base, pre.wall)

C20_Witness ==
  /\ obs.op = "loop" /\ pre.base >= 0 /\ preLim = pre.base /\ preIdle
  /\ preDiff > cfg.maxCatchupMinutes /\ pre.file = HHMM(pre.base)

\* C21: a tick that starts Idle attempts a normal pulse only when
\* forwardDiff(PhysicalMinute, now) = 1, and an accepted one leaves
\* PhysicalMinute at now; no normal pulse is emitted, and PhysicalMinute moved,
\* across a gap of more than one minute.
C21_SinglePulsePrecondition ==
  (obs.op = "loop" /\ preIdle) =>
    /\ (obs.emitted = 1 \/ obs.rejected) => preDiff = 1
    /\ (obs.emitted = 1 /\ ~obs.sync.done) => (~obs.burst /\ lim = wall)

\* C22: a tick that starts Idle with 1 < forwardDiff(PhysicalMinute, now) <= cap
\* puts the engine in catch-up for forwardDiff pulses: after it the session is
\* active and what it has emitted plus what remains is forwardDiff (stated for
\* the ticks in which no re-sync moves the clock).
C22_LagStartsCatchUp ==
  (obs.op = "loop" /\ preIdle /\ preDiff > 1 /\ preDiff <= cfg.maxCatchupMinutes
   /\ ~obs.sync.done /\ ~obs.rejected) =>
    /\ sys.catchupActive
    /\ sys.catchupRemaining + obs.emitted = preDiff
    /\ obs.emitted = 1 => obs.burst

\* C23: a tick whose normal pulse attempt the guard rejects leaves
\* PhysicalMinute, state.txt, the session state and the pulse driver as they
\* were and emits nothing (stated for the ticks in which the re-sync that
\* follows the minute tick in loop() is not due).
C23_RejectedTickFrame ==
  (obs.op = "loop" /\ obs.rejected /\ ~obs.sync.done) =>
    /\ lim = preLim
    /\ stateFile = pre.file
    /\ sys = pre.sys
    /\ pulse = pre.pulse
    /\ obs.emitted = 0
    /\ "pulse-skipped" \in obs.logs /\ "pulse-for-minute" \notin obs.logs

C23_Witness ==
  /\ obs.op = "loop" /\ obs.rejected /\ ~obs.sync.done /\ preIdle
  /\ pre.wall # preLim /\ lim = preLim /\ stateFile = pre.file /\ pre.pulseEnd >= 0

\* a normal pulse was accepted in this loop() and PhysicalMinute set to the minute read
RetryServed ==
  /\ obs.op = "loop" /\ obs.emitted = 1 /\ ~obs.burst /\ "pulse-for-minute" \in obs.logs
  /\ sys.lastImpulseMinutes = obs.pre.wall \/ obs.sync.done
  /\ sys.lastImpulseMinutes # obs.pre.sys.lastImpulseMinutes \/ obs.sync.done

\* C24: whenever the engine is Idle with now # PhysicalMinute after a
\* guard-rejected normal pulse, and loop() keeps being called while millis
\* advances, a later loop() has its normal pulse accepted and sets
\* PhysicalMinute to the minute it read.
C24_RetryLiveness == RetryPending ~> RetryServed

C24_Witness ==
  /\ obs.op = "loop" /\ pre.retry /\ preIdle /\ pre.wall # preLim /\ pre.pulseEnd >= 0
  /\ obs.emitted = 1 /\ ~obs.burst /\ ~obs.retry /\ lim = pre.wall

\* C25: every accepted catch-up pulse moves PhysicalMinute to the minute
\* after it, 23:59 to 00:00, persists that minute and lowers remaining by one,
\* before the completion test; while the session goes on (and no DST alignment
\* follows in the same loop()) that is the state the loop() leaves.
C25_CatchUpStep ==
  /\ (obs.op = "loop" /\ obs.emitted = 1 /\ obs.burst) <=> obs.step.lim # -1
  /\ obs.step.lim # -1 =>
       /\ pre.sys.catchupActive
       /\ obs.step.lim = (preLim + 1) % 1440
       /\ obs.step.file = HHMM(obs.step.lim)
       /\ obs.step.remaining = pre.sys.catchupRemaining - 1
       /\ obs.step.remaining = 0 <=> obs.done.n # -1
  /\ (obs.step.lim # -1 /\ obs.done.n = -1 /\ ~InDstBand) =>
       /\ lim = obs.step.lim
       /\ stateFile = obs.step.file
       /\ sys.catchupRemaining = obs.step.remaining

C25_Witness ==
  /\ obs.op = "loop" /\ obs.emitted = 1 /\ obs.burst /\ preLim = 1439
  /\ obs.step = [lim |-> 0, file |-> HHMM(0), remaining |-> 1]
  /\ lim = 0 /\ stateFile = HHMM(0) /\ sys.catchupActive /\ sys.catchupRemaining = 1

\* C26: the loop() in which remaining reaches 0 leaves the session inactive
\* with remaining 0, and at that moment PhysicalMinute is the minute-of-day
\* read then, persisted, whatever the session had counted up to; with no
\* re-sync in the same loop() that is the state the loop() leaves.
C26_CompletionSnap ==
  obs.done.n # -1 =>
    /\ obs.op = "loop" /\ obs.step.remaining = 0
    /\ ~obs.done.active
    /\ obs.done.lim = obs.done.wall
    /\ obs.done.file = HHMM(obs.done.wall)
    /\ sys.catchupRemaining = 0 \/ obs.sync.done
    /\ ~obs.sync.done => (~sys.catchupActive /\ lim = wall /\ stateFile = HHMM(wall))

C26_Witness ==
  /\ obs.done.n = 3 /\ obs.done.pulses = 3 /\ ~obs.sync.done
  /\ obs.step.lim # wall /\ (obs.step.lim + 1) % 1440 = wall
  /\ lim = wall /\ stateFile = HHMM(wall) /\ ~sys.catchupActive

\* C27: triggerPulse(true) returns true and emits one pulse of the polarity
\* opposite to the last one, however little time has passed since the last
\* pulse completed, and takes the completion time as the new timestamp.
C27_BurstOverride ==
  (call.fn = "triggerPulse" /\ call.a) =>
    /\ call.r
    /\ obs.emitted = 1 /\ obs.burst /\ ~obs.rejected
    /\ pulse.lastWasA = ~pre.pulse.lastWasA
    /\ obs.polarity = IF pre.pulse.lastWasA THEN "B" ELSE "A"
    /\ millis = pre.millis + pre.pulse.durationMs + pre.pulse.pauseMs
    /\ pulse.lastTrigMs = millis /\ obs.pulseEnd = millis

C27_Witness ==
  /\ call.fn = "triggerPulse" /\ call.a /\ call.r /\ call.b = 0
  /\ pre.pulseEnd = pre.millis /\ pre.pulse.lastTrigMs = 5000 /\ pre.pulse.lastWasA
  /\ obs.emitted = 1 /\ obs.polarity = "B" /\ obs.prevPolarity = "A"

\* C28: every accepted pulse after the first begins at least
\* durationMs + pauseMs + 50 ms after the pulse before it completed, whichever
\* of the minute tick and the catch-up engine emitted either of them.
C28_CoilSettling ==
  (obs.op = "loop" /\ obs.emitted = 1 /\ pre.pulseEnd >= 0) =>
    pre.millis - pre.pulseEnd >= pre.pulse.durationMs + pre.pulse.pauseMs + 50

\* C29: a catch-up pulse that is not the first of its session is triggered
\* only when at least impulseDelayMs + 150 + 50 ms have passed since the
\* session's previous pulse completed, and a loop() before that emits nothing;
\* the first pulse of a session is triggered by the first loop() after the
\* session started.
C29_CatchUpPacing ==
  /\ sys.catchupActive => sys.catchupIntervalMs = cfg.impulseDelayMs + 150 + 50
  /\ (obs.op = "loop" /\ obs.emitted = 1 /\ obs.burst) =>
       /\ pre.sys.catchupActive
       /\ pre.sess.pulses = 0 \/ pre.millis - pre.pulseEnd >= cfg.impulseDelayMs + 150 + 50
  /\ (obs.op = "loop" /\ pre.sys.catchupActive /\ pre.sess.pulses > 0
      /\ pre.millis - pre.pulseEnd < cfg.impulseDelayMs + 150 + 50) => obs.emitted = 0
  /\ (obs.op = "loop" /\ pre.sys.catchupActive /\ pre.sess.pulses = 0) =>
       (obs.emitted = 1 /\ obs.burst)

C29_Witness ==
  /\ obs.op = "loop" /\ obs.emitted = 1 /\ obs.burst /\ cfg.impulseDelayMs = 500
  /\ pre.sess.pulses = 1 /\ obs.sess.pulses = 2 /\ pre.millis - pre.pulseEnd = 1200

\* C30: a re-sync classified as a DST/TZ jump starts no catch-up session, and
\* after one that found a session running no catch-up pulse is emitted for that
\* session any more and, while the minute read stays the realigned one,
\* PhysicalMinute stays the realigned minute.
C30_DstOverridesCatchUp ==
  /\ (obs.op \in {"begin", "loop"} /\ InDstBand) => "catchup-start" \notin obs.logs
  /\ (obs.op = "loop" /\ pre.realigned >= 0) =>
       /\ ~(obs.emitted = 1 /\ obs.burst)
       /\ (pre.wall = pre.realigned /\ wall = pre.wall) => lim = pre.realigned

\* the sync of this operation was classified as a DST/TZ jump
DstClass == obs.sync.flip /\ obs.sync.delta >= 3300 /\ obs.sync.delta <= 3900

\* the catch-up gate ran in this operation: it logged its verdict or started a session
GateRan == obs.logs \cap {"up-to-date", "error-exceeds-limit", "catchup-start"} # {}

C32_DriftHandling ==
  (obs.op = "loop" /\ obs.sync.done /\ ~InDstBand) =>
    /\ "ntp-corrected" \in obs.logs <=> obs.sync.delta >= cfg.resyncRtcIfDiffSeconds
    /\ "dst-aligned" \notin obs.logs
    /\ obs.emitted = obs.sync.emitted
    /\ obs.sync.delta < cfg.resyncRtcIfDiffSeconds =>
         (sys = obs.sync.sys /\ stateFile = obs.sync.file /\ ~GateRan)
    /\ obs.sync.delta >= cfg.resyncRtcIfDiffSeconds =>
         LET d == diffForwardMinutes(obs.sync.sys.lastImpulseMinutes, wall)
         IN /\ stateFile = obs.sync.file
            /\ lim = obs.sync.sys.lastImpulseMinutes
            /\ IF obs.sync.sys.catchupActive THEN sys = obs.sync.sys /\ ~GateRan
               ELSE IF d = 0 THEN sys = obs.sync.sys /\ "up-to-date" \in obs.logs
               ELSE IF d > cfg.maxCatchupMinutes
               THEN sys = obs.sync.sys /\ "error-exceeds-limit" \in obs.logs
               ELSE /\ sys.catchupActive /\ sys.catchupRemaining = d
                    /\ obs.sess = [n |-> d, pulses |-> 0, reason |-> "ntp-resync"]

C32_Witness ==
  /\ obs.op = "loop" /\ obs.sync.done /\ ~obs.sync.flip
  /\ obs.sync.delta = 60 /\ cfg.resyncRtcIfDiffSeconds = 60
  /\ "ntp-corrected" \in obs.logs /\ sys.catchupActive /\ sys.catchupRemaining = 1
  /\ obs.sess.reason = "ntp-resync" /\ ~obs.sync.sys.catchupActive

\* C33: a manual set to the current minute-of-day starts no session, and while
\* now() has not moved since, no loop() emits a pulse - also when the set was
\* made while a session was running.
C33_ZeroDiffManualSet ==
  /\ (obs.op = "set-state" /\ "manual-aligned" \in obs.logs) => "catchup-start" \notin obs.logs
  /\ (obs.op = "loop" /\ pre.aligned >= 0 /\ pre.wall = pre.aligned) => obs.emitted = 0

C35_ReadAfterResync ==
  (obs.op \in {"begin", "loop"} /\ obs.sync.done /\ obs.sync.wall # wall) =>
    /\ "dst-aligned" \in obs.logs => (lim = wall /\ stateFile = HHMM(wall))
    /\ "catchup-start" \in obs.logs =>
         /\ sys.catchupRemaining = diffForwardMinutes(lim, wall)
         /\ obs.origin = [start |-> lim, wall |-> wall]
    /\ "up-to-date" \in obs.logs => lim = wall
    /\ "error-exceeds-limit" \in obs.logs =>
         diffForwardMinutes(lim, wall) > cfg.maxCatchupMinutes

C35_Witness ==
  /\ obs.op = "loop" /\ obs.sync.done /\ obs.sync.wall # wall
  /\ "catchup-start" \in obs.logs /\ lim = obs.sync.wall
  /\ sys.catchupRemaining = diffForwardMinutes(lim, wall) /\ obs.origin.wall = wall

\* C36: between operations a session is active exactly while pulses remain; a
\* session that completed left remaining = 0 and active = false (until the
\* re-sync of the same loop() starts the next one), and a session is started
\* with at least one pulse to send.
C36_SessionWellFormed ==
  /\ sys.catchupActive <=> sys.catchupRemaining > 0
  /\ sys.catchupRemaining >= 0
  /\ obs.done.n # -1 => ~obs.done.active
  /\ (obs.done.n # -1 /\ "catchup-start" \notin obs.logs) =>
       (~sys.catchupActive /\ sys.catchupRemaining = 0)
  /\ "catchup-start" \in obs.logs =>
       (obs.sess.n >= 1 /\ sys.catchupRemaining = obs.sess.n /\ sys.catchupActive)

C36_Witness ==
  /\ obs.op = "loop" /\ obs.done.n >= 2 /\ obs.done.pulses = obs.done.n
  /\ pre.sys.catchupActive /\ pre.sys.catchupRemaining = 1
  /\ ~sys.catchupActive /\ sys.catchupRemaining = 0

\* C37: once begin() has run, lastImpulseMinutes is in 0..1439 and state.txt
\* holds a time of day with the hour in 0..23 and the minute in 0..59, whatever
\* it held at power-on and whatever loop() calls, syncs and accepted manual sets
\* follow.
C37_RangeInvariant ==
  pc # "boot" =>
    /\ lim \in 0..(MinutesPerDay - 1)
    /\ stateFile.fmt \in {"hhmm", "dated"}
    /\ stateFile.h \in 0..23
    /\ stateFile.m \in 0..59

C37_Witness ==
  /\ obs.op = "loop" /\ obs.emitted = 1 /\ obs.burst
  /\ preLim = MinutesPerDay - 1 /\ lim = 0 /\ stateFile = HHMM(0)

\* C38: no operation emits more than one pulse; a loop() that starts with a
\* session active makes no minute-tick attempt (none accepted, none rejected)
\* and any pulse it emits is a burst pulse; a loop() that starts Idle emits no
\* burst pulse.
C38_ModeExclusion ==
  /\ obs.emitted <= 1
  /\ (obs.op = "loop" /\ pre.sys.catchupActive) =>
       /\ ~obs.rejected
       /\ obs.logs \cap {"pulse-for-minute", "pulse-skipped"} = {}
       /\ obs.emitted = 1 => obs.burst
  /\ (obs.op = "loop" /\ preIdle) => ~obs.burst
  /\ obs.op # "loop" => obs.emitted = 0

C38_Witness ==
  /\ obs.op = "loop" /\ pre.sys.catchupActive /\ pre.wall # preLim
  /\ obs.emitted = 1 /\ obs.burst /\ pre.pulseEnd >= 0
  /\ pre.millis - pre.pulseEnd < pre.pulse.minGapMs

\* C39: with no pulse accepted since begin(), triggerPulse(false) returns true
\* and emits a pulse of polarity A, however soon after startup it is called.
C39_FirstPulseAccepted ==
  (call.fn = "triggerPulse" /\ ~call.a /\ pre.pulseEnd = -1) =>
    /\ call.r
    /\ obs.emitted = 1 /\ obs.polarity = "A"

\* C40: for every minute-of-day m, loadLastKnownClockTime() after
\* saveClockTime(m) returns m; after two saves it returns the second, and the
\* file holds the one line of the last save.
C40_StoreRoundTrip ==
  (call.fn = "loadLastKnownClockTime" /\ obs.target >= 0) =>
    /\ call.r = obs.target
    /\ call.b = println(snprintfHHMM(DateTime(obs.target \div 60, obs.target % 60)))
    /\ stateFile = HHMM(obs.target)

C40_Witness ==
  /\ call.fn = "loadLastKnownClockTime" /\ obs.events = 2 /\ obs.target = 5
  /\ call.r = 5 /\ call.b = <<"0", "0", ":", "0", "5", "\r", "\n">>

====
